---- MODULE Spec2Model ----
(***************************************************************************)
(* Model of find-pixel-resolution: the periodicity fitter of               *)
(* src/analyzer.js (analyzePeriodicity, calculateDFTBin; a port of        *)
(* FindPixelResolution.AnalyzePeriodicity in src/Unity/WindowsFileDrop.cs) *)
(* and the grid / reconstruction code of src/main.js and                   *)
(* src/Unity/FindPixelResolutionCli.cs.                                    *)
(*                                                                         *)
(* Numbers.  The program computes in IEEE doubles.  The model computes in  *)
(* decimal fixed point: a program value v is the integer v * FP (three     *)
(* decimals); sines, cosines, angles and the DFT sums carry one more       *)
(* decimal (v * TrigFP).  Samples of a signal are whole multiples of       *)
(* 1 / SampleDen, so that sums both below and above the 0.0001 energy      *)
(* threshold occur; magnitudes are in the same unit.                       *)
(***************************************************************************)
EXTENDS Integers, Sequences, FiniteSets, TLC

\* ------------------------------------------------------------------ bounds
MaxLen == 7          \* longest signal
OffsetCap == 12      \* |offset| saturates at OffsetCap (the double's 2^53)
ShortLen == 2        \* longest signal of the calls checked for termination

\* --------------------------------------------------------------- numerics
FP == 1000
TrigFP == 10000
SampleDen == 20000

Abs(x) == IF x < 0 THEN -x ELSE x
Min(a, b) == IF a <= b THEN a ELSE b
Max(a, b) == IF a >= b THEN a ELSE b

\* a / b rounded to the nearest integer (halves up), for b > 0
RoundDiv(a, b) == (2 * a + b) \div (2 * b)

\* a * b / c rounded down, for 0 <= a, 0 <= b, c > 0 and (c - 1) * b < 2^31
MulDiv(a, b, c) ==
    (a \div c) * b + ((a % c) * b) \div c

\* Math.sqrt on a non-negative integer: the floor of the root
RECURSIVE SqrtSearch(_, _, _)
SqrtSearch(n, lo, hi) ==
    IF lo >= hi THEN lo
    ELSE LET mid == (lo + hi + 1) \div 2
         IN  IF mid * mid <= n THEN SqrtSearch(n, mid, hi)
             ELSE SqrtSearch(n, lo, mid - 1)

Sqrt(n) == SqrtSearch(n, 0, 46340)

HalfPi == 15708      \* pi / 2 * TrigFP
Pi == 31416          \* pi * TrigFP
TwoPi == 62832       \* 2 * pi * TrigFP

\* cos x and sin x for 0 <= x <= HalfPi (x in radians * TrigFP), by the
\* Taylor polynomial in Horner form
CosPoly(x) ==
    LET x2 == (x * x) \div TrigFP
        t5 == TrigFP - RoundDiv(x2, 132)
        t4 == TrigFP - RoundDiv(x2 * t5, 90 * TrigFP)
        t3 == TrigFP - RoundDiv(x2 * t4, 56 * TrigFP)
        t2 == TrigFP - RoundDiv(x2 * t3, 30 * TrigFP)
        t1 == TrigFP - RoundDiv(x2 * t2, 12 * TrigFP)
    IN  TrigFP - RoundDiv(x2 * t1, 2 * TrigFP)

SinPoly(x) ==
    LET x2 == (x * x) \div TrigFP
        t5 == TrigFP - RoundDiv(x2, 156)
        t4 == TrigFP - RoundDiv(x2 * t5, 110 * TrigFP)
        t3 == TrigFP - RoundDiv(x2 * t4, 72 * TrigFP)
        t2 == TrigFP - RoundDiv(x2 * t3, 42 * TrigFP)
        t1 == TrigFP - RoundDiv(x2 * t2, 20 * TrigFP)
        t0 == TrigFP - RoundDiv(x2 * t1, 6 * TrigFP)
    IN  RoundDiv(x * t0, TrigFP)

\* Math.cos and Math.sin of the angle 2 * pi * p / q (q > 0, any integer p):
\* the quadrant is found exactly, the rest by the polynomial
CosTurn(p, q) ==
    LET r == p % q
        quad == (4 * r) \div q
        x == ((((4 * r) % q) * HalfPi) \div q)
    IN  CASE quad = 0 -> CosPoly(x)
          [] quad = 1 -> -SinPoly(x)
          [] quad = 2 -> -CosPoly(x)
          [] OTHER    -> SinPoly(x)

SinTurn(p, q) ==
    LET r == p % q
        quad == (4 * r) \div q
        x == ((((4 * r) % q) * HalfPi) \div q)
    IN  CASE quad = 0 -> SinPoly(x)
          [] quad = 1 -> CosPoly(x)
          [] quad = 2 -> -SinPoly(x)
          [] OTHER    -> -CosPoly(x)

TanPi8 == 4142       \* tan(pi / 8) * TrigFP

\* atan a for 0 <= a <= TrigFP (a = tangent * TrigFP), in radians * TrigFP
AtanPoly(a) ==
    LET a2 == (a * a) \div TrigFP
        t4 == RoundDiv(TrigFP, 7) - RoundDiv(a2, 9)
        t3 == RoundDiv(TrigFP, 5) - RoundDiv(a2 * t4, TrigFP)
        t2 == RoundDiv(TrigFP, 3) - RoundDiv(a2 * t3, TrigFP)
        t1 == TrigFP - RoundDiv(a2 * t2, TrigFP)
    IN  RoundDiv(a * t1, TrigFP)

AtanUnit(a) ==
    IF a <= TanPi8
    THEN AtanPoly(a)
    ELSE (Pi \div 4) - AtanPoly(RoundDiv((TrigFP - a) * TrigFP, TrigFP + a))

\* atan(lo / hi) for 0 <= lo <= hi, 0 < hi (both are divided by a common
\* divisor first when hi is large, as a double's exponent does)
OctantAngle(lo, hi) ==
    AtanUnit(((lo \div (hi \div 32768 + 1)) * TrigFP)
             \div (hi \div (hi \div 32768 + 1)))

\* atan2(ay, ax) for ay >= 0 and ax >= 0; atan2(0, 0) = 0
FirstQuadrant(ay, ax) ==
    IF ay = 0 /\ ax = 0 THEN 0
    ELSE IF ay <= ax THEN OctantAngle(ay, ax)
    ELSE HalfPi - OctantAngle(ax, ay)

\* Math.atan2(y, x) in radians * TrigFP, in (-Pi, Pi]
Atan2(y, x) ==
    LET first == FirstQuadrant(Abs(y), Abs(x))
    IN  IF x >= 0
        THEN (IF y >= 0 THEN first ELSE -first)
        ELSE (IF y >= 0 THEN Pi - first ELSE -(Pi - first))

\* ------------------------------------------------------ src/analyzer.js
\* calculateDFTBin: sumRe and sumIm of signal at bin k, k given as k * FP.
\* The angle -2 * pi * k * n / N is the fraction (k * FP * n) / (N * FP) of
\* a turn, negated; the sums are in sample units * TrigFP.
RECURSIVE SumRe(_, _, _)
SumRe(signal, k, n) ==
    IF n >= Len(signal) THEN 0
    ELSE signal[n + 1] * CosTurn(k * n, Len(signal) * FP)
         + SumRe(signal, k, n + 1)

RECURSIVE SumIm(_, _, _)
SumIm(signal, k, n) ==
    IF n >= Len(signal) THEN 0
    ELSE -(signal[n + 1] * SinTurn(k * n, Len(signal) * FP))
         + SumIm(signal, k, n + 1)

\* Math.sqrt(sumRe * sumRe + sumIm * sumIm), in sample units * FP
\* (large sums are squared at a coarser unit s, as a double's exponent does)
Magnitude(re, im) ==
    LET r == RoundDiv(re, TrigFP \div FP)
        i == RoundDiv(im, TrigFP \div FP)
        s == Max(Abs(r), Abs(i)) \div 32768 + 1
        rs == RoundDiv(r, s)
        is == RoundDiv(i, s)
    IN  s * Sqrt(rs * rs + is * is)

\* the element of a one-element set: a value computed once, then named
Only(S) == CHOOSE x \in S : TRUE

calculateDFTBin(signal, k) ==
    Only({[magnitude |-> Magnitude(sum[1], sum[2]),
           phase |-> Atan2(sum[2], sum[1])] :
             sum \in {<<SumRe(signal, k, 0), SumIm(signal, k, 0)>>}})

RECURSIVE SeqSum(_, _)
SeqSum(s, n) == IF n = 0 THEN 0 ELSE s[n] + SeqSum(s, n - 1)

\* let totalEnergy = 0; for (...) totalEnergy += data[i]
TotalEnergy(d) == SeqSum(d, Len(d))

\* the energy test written as totalEnergy === 0
DegenerateZeroOnly(energy) == energy <= 0

\* totalEnergy < 0.0001, the samples being multiples of 1 / SampleDen
Degenerate(energy) == 10000 * energy < SampleDen

\* the upper band end taken as floor(N / 3)
MaxKThird(N) == N \div 3

MinK(N, ms) == IF N \div ms < 1 THEN 1 ELSE N \div ms
MaxK(N) == N \div 2

\* 1. Coarse sweep: new Array(maxK + 2).fill(0), then the swept bins
CoarseSweep(d, lo, hi) ==
    [k \in 0..(hi + 1) |->
        IF lo <= k /\ k <= hi THEN calculateDFTBin(d, k * FP).magnitude ELSE 0]

RECURSIVE SweepMax(_, _, _, _)
SweepMax(m, k, hi, best) ==
    IF k > hi THEN best
    ELSE SweepMax(m, k + 1, hi, IF m[k] > best THEN m[k] ELSE best)

\* mageVals[k] > threshold, threshold = globalMax * 0.4
AboveThreshold(mk, gmax) == 10 * mk > 4 * gmax

\* the peak test with the threshold left out
IsPeakAnyHeight(m, k, gmax) ==
    /\ m[k] > m[k - 1]
    /\ m[k] > m[k + 1]

IsPeak(m, k, gmax) ==
    /\ m[k] > m[k - 1]
    /\ m[k] > m[k + 1]
    /\ AboveThreshold(m[k], gmax)

\* 2. Find first significant peak: the accepted bin, or -1
RECURSIVE FirstPeak(_, _, _, _)
FirstPeak(m, k, hi, gmax) ==
    IF k >= hi THEN -1
    ELSE IF IsPeak(m, k, gmax) THEN k
    ELSE FirstPeak(m, k + 1, hi, gmax)

\* the interpolation with the quotient (y1 - y3) / d, the factor 2 left out
RefineWhole(m, k) ==
    LET y1 == m[k - 1]
        y2 == m[k]
        y3 == m[k + 1]
        d == y1 - 2 * y2 + y3
    IN  IF d = 0 THEN k * FP
        ELSE IF d > 0 THEN k * FP + RoundDiv((y1 - y3) * FP, d)
        ELSE k * FP + RoundDiv((y3 - y1) * FP, -d)

\* Parabolic interpolation of the accepted bin k: chosenK * FP (the
\* quotient of large magnitudes is taken at a coarser unit s)
Refine(m, k) ==
    LET y1 == m[k - 1]
        y2 == m[k]
        y3 == m[k + 1]
        d == y1 - 2 * y2 + y3
        s == Max(Abs(y1 - y3), Abs(d)) \div 1000000 + 1
    IN  IF d > 0 THEN k * FP + RoundDiv(((y1 - y3) \div s) * FP, 2 * (d \div s))
        ELSE IF d < 0
             THEN k * FP + RoundDiv(((y3 - y1) \div s) * FP, 2 * ((-d) \div s))
        ELSE k * FP

\* Fallback to global max: the first bin that equals it, or -1
RECURSIVE FirstAtMax(_, _, _, _)
FirstAtMax(m, k, hi, gmax) ==
    IF k > hi THEN -1
    ELSE IF m[k] = gmax THEN k
    ELSE FirstAtMax(m, k + 1, hi, gmax)

\* const scale = N / chosenK, as scale * FP; chosenK is chosenK * FP
ScaleOf(N, k) ==
    IF k > 0 THEN RoundDiv(N * FP * FP, k) ELSE -RoundDiv(N * FP * FP, -k)

\* let offset = (-finalPhase * scale) / (2 * Math.PI), as offset * FP
RawOffset(phase, sc) == RoundDiv((-phase) * sc, TwoPi)

\* a double that only grows stops growing (x + 1 = x at 2^53); the model's
\* offset stops at OffsetCap
Saturate(x) ==
    IF x > OffsetCap * FP THEN OffsetCap * FP
    ELSE IF x < -(OffsetCap * FP) THEN -(OffsetCap * FP)
    ELSE x

\* const confidence = finalMag / (totalEnergy / scale), as confidence * FP
Confidence(mag, energy, sc) == RoundDiv(MulDiv(mag, sc, energy), FP)

\* lines 48-82: chosenK * FP from the swept magnitudes m, -FP if none
ChosenBin(m, lo, hi) ==
    LET gmax == SweepMax(m, lo, hi, 0)
        p == FirstPeak(m, lo + 1, hi, gmax)
        f == FirstAtMax(m, lo, hi, gmax)
    IN  IF p # -1 THEN Refine(m, p)
        ELSE IF f # -1 THEN f * FP ELSE -FP

\* lines 85-93: scale, raw offset and magnitude at the chosen bin k
EstimateAt(d, k) ==
    LET fin == calculateDFTBin(d, k)
        sc == ScaleOf(Len(d), k)
    IN  [scale |-> sc, offset |-> RawOffset(fin.phase, sc),
         magnitude |-> fin.magnitude]

\* lines 35-93 in one piece
RawEstimate(d, ms) ==
    Only({EstimateAt(d, k) :
            k \in {ChosenBin(m, MinK(Len(d), ms), MaxK(Len(d))) :
                      m \in {CoarseSweep(d, MinK(Len(d), ms), MaxK(Len(d)))}}})

\* lines 96-97 run to their end, for scale > 0
RECURSIVE NormUp(_, _)
NormUp(off, sc) == IF off < 0 THEN NormUp(off + sc, sc) ELSE off

RECURSIVE NormDown(_, _)
NormDown(off, sc) == IF off >= sc THEN NormDown(off - sc, sc) ELSE off

\* whether the call returns: with scale < 0 one of the two loops never ends
Returns(d, ms) ==
    Degenerate(TotalEnergy(d)) \/ RawEstimate(d, ms).scale > 0

\* analyzePeriodicity(data, maxScale) as the value a returning call returns
analyzePeriodicity(d, ms) ==
    IF Degenerate(TotalEnergy(d))
    THEN [scale |-> 1 * FP, offset |-> 0, confidence |-> 0]
    ELSE Only({[scale |-> e.scale,
                offset |-> NormDown(NormUp(e.offset, e.scale), e.scale),
                confidence |-> Confidence(e.magnitude, TotalEnergy(d),
                                          e.scale)] :
                  e \in {RawEstimate(d, ms)}})

VARIABLES
    data,         \* the signal (1-based; data[n + 1] is the code's data[n])
    maxScale,
    pc,           \* position in analyzePeriodicity
    totalEnergy,
    minK, maxK,
    mageVals,
    globalMax,
    chosenK,      \* chosenK * FP; -FP is the code's -1
    peakK,        \* the bin the peak scan accepted, -1 if none (history)
    finalMag,
    scale,        \* scale * FP
    offset,       \* offset * FP
    result        \* the returned estimate, once pc = "done"

fitVars == <<data, maxScale, pc, totalEnergy, minK, maxK, mageVals, globalMax,
             chosenK, peakK, finalMag, scale, offset, result>>

\* src/main.js lines 6-7, 20-24 and the outputs of its handlers;
\* src/Unity/FindPixelResolutionCli.cs ReconstructImage
VARIABLES
    imageTexture,     \* the loaded image: [<<x, y>> |-> colour], or NoTexture
    imgWidth,
    imgHeight,
    lastResult,       \* [resX, resY], or NoLastResult (null)
    maxScaleInput,    \* parseInt(maxScaleInput.value); 0 when it is NaN
    sampleCenterOnly, \* sampleCenterCheckbox.checked
    uiBounds,         \* what updateUI last derived, or NoBounds
    downloaded,       \* the image the download handler produced, or NoImage
    savedLowRes,      \* the _lowres.png ReconstructImage wrote, or NoImage
    unityResult,      \* FindPixelResolution.LastResult of the Unity build
    reconstructed,    \* _reconstructedTexture of the Unity build, or NoTexture
    tile,             \* the source tile the image was built from (history)
    hung,             \* a handler is stuck in analyzePeriodicity
    colData,          \* what runAnalysis last read back from fboCol
    rowData,          \* what runAnalysis last read back from fboRow
    showReconstructed,
    displayed,        \* the canvas as runAnalysis last drew it, or NoTexture
    lastToggleTime,   \* in ms, as performance.now() gave it
    flipAt,           \* when showReconstructed last flipped, -1 if never (history)
    now,              \* what performance.now() returns, in ms
    animationId,      \* the id setInterval returned, 0 for null
    timers,           \* the ids of the interval timers that are set
    pending,          \* the createImageBitmap calls not yet settled
    lastDropped,      \* the image of the latest drop, or NoDrop (history)
    droppedFiles,     \* WindowsFileDrop._droppedFiles
    hasDropped,       \* WindowsFileDrop._hasDropped
    dispatched,       \* the arrays OnFilesDropped was invoked with (history)
    dropCount,        \* the paths OnDrop received so far (history)
    frame             \* the calls of WindowsFileDrop.Update so far (history)

viewVars == <<imageTexture, imgWidth, imgHeight, lastResult, maxScaleInput,
              sampleCenterOnly, uiBounds, downloaded, savedLowRes, unityResult,
              reconstructed, tile, hung, colData, rowData, showReconstructed,
              displayed, lastToggleTime, flipAt, now, animationId, timers,
              pending, lastDropped, droppedFiles, hasDropped, dispatched,
              dropCount, frame>>

\* the state of the WindowsFileDrop component
dropVars == <<droppedFiles, hasDropped, dispatched, dropCount, frame>>

\* what only the drop handler and processImage write
pageVars == <<animationId, timers, pending, lastDropped>>

vars == <<fitVars, viewVars>>

NoTexture == <<>>
NoLastResult == [resX |-> <<>>, resY |-> <<>>]
NoBounds == <<>>
NoImage ==
    [width |-> 0, height |-> 0, px |-> <<>>, grid |-> NoLastResult,
     centerOnly |-> FALSE]
NoTile == [K |-> 0, L |-> 0, px |-> <<>>]
NoDrop == [seq |-> 0, tex |-> <<>>, w |-> 0, h |-> 0]

\* the page before any image is dropped (main.js lines 20-24)
ViewIdle ==
    /\ imageTexture = NoTexture
    /\ imgWidth = 0
    /\ imgHeight = 0
    /\ lastResult = NoLastResult
    /\ maxScaleInput = 16
    /\ sampleCenterOnly = FALSE
    /\ uiBounds = NoBounds
    /\ downloaded = NoImage
    /\ savedLowRes = NoImage
    /\ unityResult = NoLastResult
    /\ reconstructed = NoTexture
    /\ tile = NoTile
    /\ hung = FALSE
    /\ colData = <<>>
    /\ rowData = <<>>
    /\ showReconstructed = FALSE
    /\ displayed = NoTexture
    /\ lastToggleTime = 0
    /\ flipAt = -1
    /\ droppedFiles = <<>>
    /\ hasDropped = FALSE
    /\ dispatched = <<>>
    /\ dropCount = 0
    /\ frame = 0
    /\ animationId = 0
    /\ timers = {}
    /\ pending = {}
    /\ lastDropped = NoDrop

\* no call of analyzePeriodicity under way
FitIdle ==
    /\ data = <<>>
    /\ maxScale = 2
    /\ pc = "idle"
    /\ totalEnergy = 0
    /\ minK = 0
    /\ maxK = 0
    /\ mageVals = <<>>
    /\ globalMax = 0
    /\ chosenK = -FP
    /\ peakK = -1
    /\ finalMag = 0
    /\ scale = 0
    /\ offset = 0
    /\ result = [scale |-> 0, offset |-> 0, confidence |-> 0]

\* sample levels, in units of 1 / SampleDen: one unit alone is below the
\* energy threshold, two are not
Samples == {0, 1, 2}

Signals == UNION {[1..n -> Samples] : n \in 0..MaxLen}

MaxScales == {2, 3, 4}

NoResult == [scale |-> 0, offset |-> 0, confidence |-> 0]

Init ==
    /\ data \in Signals
    /\ maxScale \in MaxScales
    /\ pc = "start"
    /\ totalEnergy = 0
    /\ minK = 0
    /\ maxK = 0
    /\ mageVals = <<>>
    /\ globalMax = 0
    /\ chosenK = -FP
    /\ peakK = -1
    /\ finalMag = 0
    /\ scale = 0
    /\ offset = 0
    /\ result = NoResult
    /\ ViewIdle
    /\ now = 0

\* lines 25-36: the energy test, the degenerate return, the band
Start ==
    /\ pc = "start"
    /\ UNCHANGED viewVars
    /\ totalEnergy' = TotalEnergy(data)
    /\ IF Degenerate(TotalEnergy(data))
       THEN /\ result' = [scale |-> 1 * FP, offset |-> 0, confidence |-> 0]
            /\ pc' = "done"
            /\ UNCHANGED <<minK, maxK>>
       ELSE /\ minK' = MinK(Len(data), maxScale)
            /\ maxK' = MaxK(Len(data))
            /\ pc' = "sweep"
            /\ UNCHANGED result
    /\ UNCHANGED <<data, maxScale, mageVals, globalMax, chosenK, peakK,
                   finalMag, scale, offset>>

\* lines 38-46
Sweep ==
    /\ pc = "sweep"
    /\ UNCHANGED viewVars
    /\ LET m == CoarseSweep(data, minK, maxK)
       IN  /\ mageVals' = m
           /\ globalMax' = SweepMax(m, minK, maxK, 0)
    /\ pc' = "scan"
    /\ UNCHANGED <<data, maxScale, totalEnergy, minK, maxK, chosenK, peakK,
                   finalMag, scale, offset, result>>

\* lines 48-71
Scan ==
    /\ pc = "scan"
    /\ UNCHANGED viewVars
    /\ LET k == FirstPeak(mageVals, minK + 1, maxK, globalMax)
       IN  IF k # -1
           THEN /\ chosenK' = Refine(mageVals, k)
                /\ peakK' = k
                /\ pc' = "phase"
           ELSE /\ pc' = "fallback"
                /\ UNCHANGED <<chosenK, peakK>>
    /\ UNCHANGED <<data, maxScale, totalEnergy, minK, maxK, mageVals,
                   globalMax, finalMag, scale, offset, result>>

\* lines 73-82
Fallback ==
    /\ pc = "fallback"
    /\ UNCHANGED viewVars
    /\ LET k == FirstAtMax(mageVals, minK, maxK, globalMax)
       IN  chosenK' = IF k # -1 THEN k * FP ELSE chosenK
    /\ pc' = "phase"
    /\ UNCHANGED <<data, maxScale, totalEnergy, minK, maxK, mageVals,
                   globalMax, peakK, finalMag, scale, offset, result>>

\* lines 84-93
FinalPhase ==
    /\ pc = "phase"
    /\ UNCHANGED viewVars
    /\ LET finalRes == calculateDFTBin(data, chosenK)
           sc == ScaleOf(Len(data), chosenK)
       IN  /\ finalMag' = finalRes.magnitude
           /\ scale' = sc
           /\ offset' = RawOffset(finalRes.phase, sc)
    /\ pc' = "norm1"
    /\ UNCHANGED <<data, maxScale, totalEnergy, minK, maxK, mageVals,
                   globalMax, chosenK, peakK, result>>

\* the first loop left out: a negative offset goes on to the second loop
NormUpSkipped ==
    /\ pc = "norm1"
    /\ UNCHANGED viewVars
    /\ pc' = "norm2"
    /\ UNCHANGED <<data, maxScale, totalEnergy, minK, maxK, mageVals,
                   globalMax, chosenK, peakK, finalMag, scale, offset, result>>

\* line 96: while (offset < 0)
NormUpTest ==
    /\ pc = "norm1"
    /\ UNCHANGED viewVars
    /\ pc' = IF offset < 0 THEN "norm1body" ELSE "norm2"
    /\ UNCHANGED <<data, maxScale, totalEnergy, minK, maxK, mageVals,
                   globalMax, chosenK, peakK, finalMag, scale, offset, result>>

\* line 96: offset += scale
NormUpBody ==
    /\ pc = "norm1body"
    /\ UNCHANGED viewVars
    /\ offset' = Saturate(offset + scale)
    /\ pc' = "norm1"
    /\ UNCHANGED <<data, maxScale, totalEnergy, minK, maxK, mageVals,
                   globalMax, chosenK, peakK, finalMag, scale, result>>

\* line 97: while (offset >= scale)
NormDownTest ==
    /\ pc = "norm2"
    /\ UNCHANGED viewVars
    /\ pc' = IF offset >= scale THEN "norm2body" ELSE "return"
    /\ UNCHANGED <<data, maxScale, totalEnergy, minK, maxK, mageVals,
                   globalMax, chosenK, peakK, finalMag, scale, offset, result>>

\* line 97: offset -= scale
NormDownBody ==
    /\ pc = "norm2body"
    /\ UNCHANGED viewVars
    /\ offset' = Saturate(offset - scale)
    /\ pc' = "norm2"
    /\ UNCHANGED <<data, maxScale, totalEnergy, minK, maxK, mageVals,
                   globalMax, chosenK, peakK, finalMag, scale, result>>

\* lines 99-105
Return ==
    /\ pc = "return"
    /\ UNCHANGED viewVars
    /\ result' = [scale |-> scale, offset |-> offset,
                  confidence |-> Confidence(finalMag, totalEnergy, scale)]
    /\ pc' = "done"
    /\ UNCHANGED <<data, maxScale, totalEnergy, minK, maxK, mageVals,
                   globalMax, chosenK, peakK, finalMag, scale, offset>>

Next ==
    \/ Start
    \/ Sweep
    \/ Scan
    \/ Fallback
    \/ FinalPhase
    \/ NormUpTest
    \/ NormUpBody
    \/ NormDownTest
    \/ NormDownBody
    \/ Return

Spec == Init /\ [][Next]_vars

\* the calls on short signals
ShortInit == Init /\ Len(data) <= ShortLen

\* a running call keeps executing
FairSpec == ShortInit /\ [][Next]_vars /\ WF_vars(Next)

\* ---- calls on longer, sparse signals: a band with several inner bins
LongLen == 10        \* longest of the sparse signals
MaxSpikes == 4       \* most non-zero samples of a sparse signal
LongMaxScale == 16   \* the max-scale field's default

LongSignals ==
    UNION {{s \in [1..n -> Samples] :
               Cardinality({i \in 1..n : s[i] # 0}) <= MaxSpikes} :
             n \in 0..LongLen}

LongInit ==
    /\ data \in LongSignals
    /\ maxScale = LongMaxScale
    /\ pc = "start"
    /\ totalEnergy = 0
    /\ minK = 0
    /\ maxK = 0
    /\ mageVals = <<>>
    /\ globalMax = 0
    /\ chosenK = -FP
    /\ peakK = -1
    /\ finalMag = 0
    /\ scale = 0
    /\ offset = 0
    /\ result = NoResult
    /\ ViewIdle
    /\ now = 0

LongSpec == LongInit /\ [][Next]_vars

\* ----------------------------------------------------------- src/main.js
\* Math.floor(a / b) and Math.ceil(a / b) for b > 0
FloorDiv(a, b) == a \div b
CeilDiv(a, b) == -((-a) \div b)

\* int(a / b), the conversion of GLSL and of a cast: toward zero
TruncDiv(a, b) == IF a >= 0 THEN a \div b ELSE -((-a) \div b)

Clamp(v, lo, hi) == IF v < lo THEN lo ELSE IF v > hi THEN hi ELSE v

\* the first cell found by an integer cast in place of Math.floor
MinGridTruncated(res) == TruncDiv(0 - res.offset, res.scale)

\* Math.floor((0 - resX.offset) / resX.scale)
MinGrid(res) == FloorDiv(0 - res.offset, res.scale)

\* the last cell taken at pixel n in place of pixel n - 1
MaxGridAtWidth(n, res) == FloorDiv(n * FP - res.offset, res.scale)

\* the last cell taken as the last pixel, the division by the scale left out
MaxGridInPixels(n, res) == FloorDiv((n - 1) * FP - res.offset, FP)

\* Math.floor((imgWidth - 1 - resX.offset) / resX.scale)
MaxGrid(n, res) == FloorDiv((n - 1) * FP - res.offset, res.scale)

\* the cell of pixel p: Mathf.FloorToInt((x - ox) / sx)
GridIndex(p, res) == FloorDiv(p * FP - res.offset, res.scale)

\* updateUI, lines 404-410
Bounds(w, h, resX, resY) ==
    [minGridX |-> MinGrid(resX),
     maxGridX |-> MaxGrid(w, resX),
     recW     |-> MaxGrid(w, resX) - MinGrid(resX) + 1,
     minGridY |-> MinGrid(resY),
     maxGridY |-> MaxGrid(h, resY),
     recH     |-> MaxGrid(h, resY) - MinGrid(resY) + 1]

\* colours are <<r, g, b>> in 1/255ths; alpha is 255 throughout
Black == <<0, 0, 0>>

BlankTexture(w, h) == [p \in (0..(w - 1)) \X (0..(h - 1)) |-> Black]

\* updateUI(resX, resY) on the results of an analysis
UpdateUI ==
    /\ lastResult # NoLastResult
    /\ uiBounds' = Bounds(imgWidth, imgHeight, lastResult.resX, lastResult.resY)
    /\ UNCHANGED <<imageTexture, imgWidth, imgHeight, lastResult,
                   maxScaleInput, sampleCenterOnly, downloaded, savedLowRes,
                   unityResult, reconstructed, tile, hung, colData, rowData,
                   showReconstructed, displayed,
                   lastToggleTime, flipAt>>
    /\ UNCHANGED <<fitVars, dropVars, now, pageVars>>

\* ---- edge projection: fsColDiffSource, fsRowDiffSource
\* abs(c.rgb - l.rgb), then diff.r + diff.g + diff.b, in 1/255ths
ChannelDiff(c, l) == Abs(c[1] - l[1]) + Abs(c[2] - l[2]) + Abs(c[3] - l[3])

\* the left neighbour of column 0 read as black, outside the texture
LeftTexelOrBlack(tex, x, y) == IF x > 0 THEN tex[<<x - 1, y>>] ELSE Black

\* int prevX = x > 0 ? x - 1 : 0; texelFetch(uImage, ivec2(prevX, y), 0)
LeftTexel(tex, x, y) == tex[<<IF x > 0 THEN x - 1 ELSE 0, y>>]

\* the upper neighbour of row 0 read as black, outside the texture
UpperTexelOrBlack(tex, x, y) == IF y > 0 THEN tex[<<x, y - 1>>] ELSE Black

\* int prevY = y > 0 ? y - 1 : 0; texelFetch(uImage, ivec2(x, prevY), 0)
UpperTexel(tex, x, y) == tex[<<x, IF y > 0 THEN y - 1 ELSE 0>>]

\* for (int y = 0; y < uHeight; y++) sum += ...
RECURSIVE ColSum(_, _, _, _)
ColSum(tex, x, y, h) ==
    IF y >= h THEN 0
    ELSE ChannelDiff(tex[<<x, y>>], LeftTexel(tex, x, y))
         + ColSum(tex, x, y + 1, h)

\* for (int x = 0; x < uWidth; x++) sum += ...
RECURSIVE RowSum(_, _, _, _)
RowSum(tex, x, y, w) ==
    IF x >= w THEN 0
    ELSE ChannelDiff(tex[<<x, y>>], UpperTexel(tex, x, y))
         + RowSum(tex, x + 1, y, w)

\* a sum of channel differences (1/255ths) as a sample (1 / SampleDen)
ToSample(t) == RoundDiv(t * SampleDen, 255)

\* colData and rowData as read back by runAnalysis
ColDiff(tex, w, h) == [n \in 1..w |-> ToSample(ColSum(tex, n - 1, 0, h))]
RowDiff(tex, w, h) == [n \in 1..h |-> ToSample(RowSum(tex, 0, n - 1, w))]

\* parseInt(maxScaleInput.value) || 16
ParseMaxScale(v) == IF v = 0 THEN 16 ELSE v

\* runAnalysis steps 1-3 on the texture tex: whether both fits return, and
\* the lastResult they leave
AnalysisReturns(tex, w, h, input) ==
    \A col \in {ColDiff(tex, w, h)}, row \in {RowDiff(tex, w, h)} :
        /\ Returns(col, ParseMaxScale(input))
        /\ Returns(row, ParseMaxScale(input))

Analysed(tex, w, h, input) ==
    Only({[resX |-> analyzePeriodicity(col, ParseMaxScale(input)),
           resY |-> analyzePeriodicity(row, ParseMaxScale(input))] :
             col \in {ColDiff(tex, w, h)},
             row \in {RowDiff(tex, w, h)}})

\* ---- fsDownsampleSource
\* kx = floor(gl_FragCoord.x) without the grid offset
GridCellFromZero(frag, gridOffset) == frag

\* float kx = floor(gl_FragCoord.x) + uGridOffsetX
GridCell(frag, gridOffset) == frag + gridOffset

\* uOffsetX + kx * uScaleX + uScaleX * 0.5, as centre * FP
CellCenter(res, k) == res.offset + k * res.scale + res.scale \div 2

\* a radius of a tenth of the scale
BoxRadiusTenth(res) == res.scale \div 10

\* uScaleX * 0.3, as radius * FP
BoxRadius(res) == (3 * res.scale) \div 10

\* the centre texel found by rounding: clamp(int(centerX + 0.5), ...)
CenterTexelRounded(res, k, n) ==
    Clamp(TruncDiv(CellCenter(res, k) + FP \div 2, FP), 0, n - 1)

\* clamp(int(centerX), 0, texSize.x - 1)
CenterTexel(res, k, n) == Clamp(TruncDiv(CellCenter(res, k), FP), 0, n - 1)

\* max(0, int(ceil(centerX - rx))) .. min(texSize.x - 1, int(floor(centerX + rx)))
BoxRange(res, k, n) ==
    Max(0, CeilDiv(CellCenter(res, k) - BoxRadius(res), FP))
    .. Min(n - 1, FloorDiv(CellCenter(res, k) + BoxRadius(res), FP))

RECURSIVE ChannelSum(_, _, _)
ChannelSum(tex, cells, c) ==
    IF cells = {} THEN 0
    ELSE LET q == CHOOSE q \in cells : TRUE
         IN  tex[q][c] + ChannelSum(tex, cells \ {q}, c)

\* sum / count, stored in an 8-bit channel
Average(tex, cells) ==
    [c \in 1..3 |-> RoundDiv(ChannelSum(tex, cells, c), Cardinality(cells))]

\* main(): the colour of low-res cell (kx, ky)
DownsampleColor(tex, w, h, resX, resY, kx, ky, centerOnly) ==
    LET center == <<CenterTexel(resX, kx, w), CenterTexel(resY, ky, h)>>
        box == BoxRange(resX, kx, w) \X BoxRange(resY, ky, h)
    IN  IF centerOnly THEN tex[center]
        ELSE IF box # {} THEN Average(tex, box)
        ELSE tex[center]

\* ---- fsDisplaySource
\* float kx = floor((x - uOffsetX) / uScaleX) with x = gl_FragCoord.x, the
\* centre p + 0.5 of canvas pixel p
DisplayCell(p, res) == FloorDiv(p * FP + FP \div 2 - res.offset, res.scale)

\* texture(uImage, vec2(centerX, centerY) / uResolution) on a NEAREST,
\* CLAMP_TO_EDGE texture: the texel that holds the centre, or the edge texel
NearestTexel(res, k, n) == Clamp(FloorDiv(CellCenter(res, k), FP), 0, n - 1)

\* lines 84-119: the colour shown for cell (kx, ky)
DisplayCellColor(tex, w, h, resX, resY, kx, ky, centerOnly) ==
    LET near == <<NearestTexel(resX, kx, w), NearestTexel(resY, ky, h)>>
        box == BoxRange(resX, kx, w) \X BoxRange(resY, ky, h)
    IN  IF centerOnly THEN tex[near]
        ELSE IF box # {} THEN Average(tex, box)
        ELSE tex[near]

\* main(): the canvas drawn from the texture and the grid res
Displayed(tex, w, h, res, show, centerOnly) ==
    [p \in (0..(w - 1)) \X (0..(h - 1)) |->
        IF show /\ res.resX.scale > 1 * FP /\ res.resY.scale > 1 * FP
        THEN DisplayCellColor(tex, w, h, res.resX, res.resY,
                              DisplayCell(p[1], res.resX),
                              DisplayCell(p[2], res.resY), centerOnly)
        ELSE tex[p]]

TOGGLE_INTERVAL == 1000

\* now - lastToggleTime >= TOGGLE_INTERVAL, the test taken with >=
ToggleDueAtInterval(t, last) == t - last >= TOGGLE_INTERVAL

\* now - lastToggleTime > TOGGLE_INTERVAL
ToggleDue(t, last) == t - last > TOGGLE_INTERVAL

\* runAnalysis() on the texture tex of size w x h, as a part of a handler:
\* the signals read back, then lastResult, the bounds shown by updateUI and
\* the canvas (showReconstructed flips when TOGGLE_INTERVAL has passed), or
\* a call of analyzePeriodicity that never returns
RunAnalysisOn(tex, w, h, input, centerOnly) ==
    /\ colData' = ColDiff(tex, w, h)
    /\ rowData' = RowDiff(tex, w, h)
    /\ IF AnalysisReturns(tex, w, h, input)
       THEN \E res \in {Analysed(tex, w, h, input)} :
                /\ lastResult' = res
                /\ uiBounds' = Bounds(w, h, res.resX, res.resY)
                /\ \E due \in {ToggleDue(now, lastToggleTime)} :
                      /\ showReconstructed' = (showReconstructed # due)
                      /\ lastToggleTime' = IF due THEN now ELSE lastToggleTime
                      /\ flipAt' = IF due THEN now ELSE flipAt
                      /\ displayed' = Displayed(tex, w, h, res,
                                                showReconstructed # due,
                                                centerOnly)
                /\ UNCHANGED hung
       ELSE /\ hung' = TRUE
            /\ UNCHANGED <<lastResult, uiBounds, showReconstructed,
                           displayed, lastToggleTime, flipAt>>

\* the canvas the download handler renders (lines 461-492)
Downsampled(tex, w, h, res, centerOnly) ==
    LET b == Bounds(w, h, res.resX, res.resY)
    IN  [width |-> b.recW,
         height |-> b.recH,
         px |-> [p \in (0..(b.recW - 1)) \X (0..(b.recH - 1)) |->
                    DownsampleColor(tex, w, h, res.resX, res.resY,
                                    GridCell(p[1], b.minGridX),
                                    GridCell(p[2], b.minGridY), centerOnly)],
         grid |-> res,
         centerOnly |-> centerOnly]

\* the click on download-lowres-btn (lines 450-508): nothing without an
\* image, an alert below scale 1.5, else the low-res image; then runAnalysis()
DownloadLowRes ==
    /\ ~hung
    /\ imageTexture # NoTexture
    /\ lastResult # NoLastResult
    /\ IF lastResult.resX.scale < 1500 \/ lastResult.resY.scale < 1500
       THEN UNCHANGED <<downloaded, lastResult, uiBounds, hung, colData,
                        rowData, showReconstructed, displayed,
                   lastToggleTime, flipAt>>
       ELSE /\ downloaded' = Downsampled(imageTexture, imgWidth, imgHeight,
                                         lastResult, sampleCenterOnly)
            /\ RunAnalysisOn(imageTexture, imgWidth, imgHeight, maxScaleInput,
                             sampleCenterOnly)
    /\ UNCHANGED <<imageTexture, imgWidth, imgHeight, maxScaleInput,
                   sampleCenterOnly, savedLowRes, unityResult, reconstructed,
                   tile>>
    /\ UNCHANGED <<fitVars, dropVars, now, pageVars>>

\* ---- src/Unity/FindPixelResolutionCli.cs, ReconstructImage
\* the safety clamp left out: a scale below 1 is used as it is
ClampScaleOff(res) == res

\* if (sx < 1.0f) sx = 1.0f
ClampScale(res) ==
    [res EXCEPT !.scale = IF res.scale < 1 * FP THEN 1 * FP ELSE res.scale]

\* Mathf.RoundToInt(c): to the nearest integer, a half to the even one
RoundToInt(c) ==
    LET f == FloorDiv(c, FP)
        r == c - f * FP
    IN  IF 2 * r < FP THEN f
        ELSE IF 2 * r > FP THEN f + 1
        ELSE IF f % 2 = 0 THEN f ELSE f + 1

\* xMin .. xMax of the sample box, the texels outside the image skipped
UnityBoxRange(res, k, n) ==
    {x \in CeilDiv(CellCenter(res, k) - BoxRadius(res), FP)
           .. FloorDiv(CellCenter(res, k) + BoxRadius(res), FP) :
        0 <= x /\ x < n}

\* lines 223-262: the colour cached for grid cell (gx, gy)
UnityCellColor(tex, w, h, resX, resY, gx, gy) ==
    LET box == UnityBoxRange(resX, gx, w) \X UnityBoxRange(resY, gy, h)
        px == Clamp(RoundToInt(CellCenter(resX, gx)), 0, w - 1)
        py == Clamp(RoundToInt(CellCenter(resY, gy)), 0, h - 1)
    IN  IF box # {} THEN Average(tex, box) ELSE tex[<<px, py>>]

SetMin(S) == CHOOSE m \in S : \A n \in S : m <= n
SetMax(S) == CHOOSE m \in S : \A n \in S : m >= n

\* lines 199-216: the cells the pixel loop visits, and their bounds
VisitedCells(n, res) == {GridIndex(p, res) : p \in 0..(n - 1)}

\* lines 204-269: dstPixels
UnityReconstructed(tex, w, h, resX, resY) ==
    [p \in (0..(w - 1)) \X (0..(h - 1)) |->
        UnityCellColor(tex, w, h, resX, resY,
                       GridIndex(p[1], resX), GridIndex(p[2], resY))]

\* lines 278-303: lrPixels, a cell the loop never visited left black
UnityLowRes(tex, w, h, resX, resY, grid) ==
    LET minGridX == SetMin(VisitedCells(w, resX))
        maxGridX == SetMax(VisitedCells(w, resX))
        minGridY == SetMin(VisitedCells(h, resY))
        maxGridY == SetMax(VisitedCells(h, resY))
        lrW == maxGridX - minGridX + 1
        lrH == maxGridY - minGridY + 1
    IN  [width |-> lrW,
         height |-> lrH,
         px |-> [p \in (0..(lrW - 1)) \X (0..(lrH - 1)) |->
                    IF /\ minGridX + p[1] \in VisitedCells(w, resX)
                       /\ minGridY + p[2] \in VisitedCells(h, resY)
                    THEN UnityCellColor(tex, w, h, resX, resY,
                                        minGridX + p[1], minGridY + p[2])
                    ELSE Black],
         grid |-> grid,
         centerOnly |-> FALSE]

\* ReconstructImage(originalPath, original, res) with res = LastResult
ReconstructImage ==
    /\ imageTexture # NoTexture
    /\ unityResult # NoLastResult
    /\ LET resX == ClampScale(unityResult.resX)
           resY == ClampScale(unityResult.resY)
       IN  /\ reconstructed' = UnityReconstructed(imageTexture, imgWidth,
                                                  imgHeight, resX, resY)
           /\ savedLowRes' = UnityLowRes(imageTexture, imgWidth, imgHeight,
                                         resX, resY, unityResult)
    /\ UNCHANGED <<imageTexture, imgWidth, imgHeight, lastResult,
                   maxScaleInput, sampleCenterOnly, uiBounds, downloaded,
                   unityResult, tile, hung, colData, rowData,
                   showReconstructed, displayed,
                   lastToggleTime, flipAt>>
    /\ UNCHANGED <<fitVars, dropVars, now, pageVars>>

\* ---- images built from a source tile
MaxTile == 2

ReconScales == {2, 3}

\* a K x L tile whose pixels all differ, to be upscaled by (Sx, Sy) behind
\* a border of (Ox, Oy) black pixels
SourceTile(K, L, Sx, Ox, Sy, Oy) ==
    [K |-> K, L |-> L, Sx |-> Sx, Ox |-> Ox, Sy |-> Sy, Oy |-> Oy,
     px |-> [p \in (0..(K - 1)) \X (0..(L - 1)) |-> <<1 + p[1], 1 + p[2], 0>>]]

\* the nearest-neighbour upscale of tile t
Upscaled(t) ==
    [p \in (0..(t.Ox + t.K * t.Sx - 1)) \X (0..(t.Oy + t.L * t.Sy - 1)) |->
        IF p[1] < t.Ox \/ p[2] < t.Oy THEN Black
        ELSE t.px[<<(p[1] - t.Ox) \div t.Sx, (p[2] - t.Oy) \div t.Sy>>]]

\* the grid the image of tile t was built on
ExactGrid(t) ==
    [resX |-> [scale |-> t.Sx * FP, offset |-> t.Ox * FP, confidence |-> FP],
     resY |-> [scale |-> t.Sy * FP, offset |-> t.Oy * FP, confidence |-> FP]]

\* an upscaled tile is loaded and the exact grid is the current result
ReconInit ==
    /\ FitIdle
    /\ \E K \in 1..MaxTile, L \in 1..MaxTile, Sx \in ReconScales,
          Sy \in ReconScales :
          \E Ox \in 0..(Sx - 1), Oy \in 0..(Sy - 1) :
              tile = SourceTile(K, L, Sx, Ox, Sy, Oy)
    /\ imageTexture = Upscaled(tile)
    /\ imgWidth = tile.Ox + tile.K * tile.Sx
    /\ imgHeight = tile.Oy + tile.L * tile.Sy
    /\ lastResult = ExactGrid(tile)
    /\ unityResult = ExactGrid(tile)
    /\ maxScaleInput = 16
    /\ sampleCenterOnly \in BOOLEAN
    /\ uiBounds = Bounds(imgWidth, imgHeight, lastResult.resX, lastResult.resY)
    /\ downloaded = NoImage
    /\ savedLowRes = NoImage
    /\ reconstructed = NoTexture
    /\ hung = FALSE
    /\ colData = <<>>
    /\ rowData = <<>>
    /\ showReconstructed = FALSE
    /\ displayed = NoTexture
    /\ lastToggleTime = 0
    /\ flipAt = -1
    /\ droppedFiles = <<>>
    /\ hasDropped = FALSE
    /\ dispatched = <<>>
    /\ dropCount = 0
    /\ frame = 0
    /\ animationId = 1
    /\ timers = {1}
    /\ pending = {}
    /\ lastDropped = NoDrop
    /\ now = 0

ReconNext ==
    \/ DownloadLowRes
    \/ ReconstructImage

ReconSpec == ReconInit /\ [][ReconNext]_vars

\* ---- reconstruction on any grid
\* sizes of the images reconstructed, and the grids (scale * FP, offset * FP)
\* on each axis: below 1, 1, fractional scales and offsets, whole ones
SampleSizes == {<<3, 1>>, <<4, 2>>, <<2, 3>>}
SampleGrids ==
    {<<500, 0>>, <<1000, 0>>, <<1500, 0>>, <<1500, 770>>, <<1600, 0>>,
     <<2000, 0>>, <<2000, 300>>, <<3000, 0>>, <<3000, 1250>>, <<5000, 500>>}

SampleEstimates ==
    {[scale |-> g[1], offset |-> g[2], confidence |-> FP] : g \in SampleGrids}

\* an image whose pixels all differ, so that a colour names the texel read
DistinctTexture(w, h) ==
    [p \in (0..(w - 1)) \X (0..(h - 1)) |-> <<p[1] + 1, p[2] + 1, 0>>]

\* an image is loaded and a grid is the current result of both builds
SampleInit ==
    /\ FitIdle
    /\ \E size \in SampleSizes : imgWidth = size[1] /\ imgHeight = size[2]
    /\ imageTexture = DistinctTexture(imgWidth, imgHeight)
    /\ lastResult \in [resX : SampleEstimates, resY : SampleEstimates]
    /\ unityResult = lastResult
    /\ maxScaleInput = 16
    /\ sampleCenterOnly \in BOOLEAN
    /\ uiBounds = Bounds(imgWidth, imgHeight, lastResult.resX, lastResult.resY)
    /\ downloaded = NoImage
    /\ savedLowRes = NoImage
    /\ reconstructed = NoTexture
    /\ tile = NoTile
    /\ hung = FALSE
    /\ colData = <<>>
    /\ rowData = <<>>
    /\ showReconstructed = FALSE
    /\ displayed = NoTexture
    /\ lastToggleTime = 0
    /\ flipAt = -1
    /\ droppedFiles = <<>>
    /\ hasDropped = FALSE
    /\ dispatched = <<>>
    /\ dropCount = 0
    /\ frame = 0
    /\ animationId = 1
    /\ timers = {1}
    /\ pending = {}
    /\ lastDropped = NoDrop
    /\ now = 0

SampleNext ==
    \/ DownloadLowRes
    \/ ReconstructImage

SampleSpec == SampleInit /\ [][SampleNext]_vars

\* image sizes, scales and offsets (scale * FP, offset * FP) of the grids
\* whose bounds are derived
GridSizes == {1, 3, 42}
GridScales == {1000, 1500, 2000, 3167, 5000}
GridOffsets == {0, 1, 500, 999, 1000, 1499, 2000, 2500, 3166, 4000, 4999}

AxisEstimates ==
    {[scale |-> s, offset |-> o, confidence |-> FP] :
        <<s, o>> \in {q \in GridScales \X GridOffsets : q[2] < q[1]}}

GridInit ==
    /\ FitIdle
    /\ imgWidth \in GridSizes
    /\ imgHeight \in GridSizes
    /\ imageTexture = BlankTexture(imgWidth, imgHeight)
    /\ lastResult \in [resX : AxisEstimates, resY : AxisEstimates]
    /\ maxScaleInput = 16
    /\ sampleCenterOnly = FALSE
    /\ uiBounds = NoBounds
    /\ downloaded = NoImage
    /\ savedLowRes = NoImage
    /\ unityResult = NoLastResult
    /\ reconstructed = NoTexture
    /\ tile = NoTile
    /\ hung = FALSE
    /\ colData = <<>>
    /\ rowData = <<>>
    /\ showReconstructed = FALSE
    /\ displayed = NoTexture
    /\ lastToggleTime = 0
    /\ flipAt = -1
    /\ droppedFiles = <<>>
    /\ hasDropped = FALSE
    /\ dispatched = <<>>
    /\ dropCount = 0
    /\ frame = 0
    /\ animationId = 1
    /\ timers = {1}
    /\ pending = {}
    /\ lastDropped = NoDrop
    /\ now = 0

GridSpec == GridInit /\ [][UpdateUI]_vars

\* ---- the page: an image is dropped, the analysis re-runs
MaxSide == 3         \* longest side of a dropped image
MaxPixels == 4       \* most pixels of a dropped image

\* pixels of the dropped images: black, or one 1/255th of red
Palette == {Black, <<1, 0, 0>>}

\* what parseInt reads from the max-scale field (0: not a number)
MaxScaleInputs == {0, 2, 16}

\* the sizes of the dropped images
ImageSizes == {size \in (1..MaxSide) \X (1..MaxSide) : size[1] * size[2] <= MaxPixels}

MaxTimers == 3       \* most calls of setInterval

\* if (animationId) clearInterval(animationId), with the test left out and
\* nothing cleared
ClearNothing(set, id) == set

\* if (animationId) clearInterval(animationId)
ClearInterval(set, id) == IF id # 0 THEN set \ {id} ELSE set

\* processImage(imageBitmap), lines 286-314: the texture, runAnalysis(), then
\* the interval timer (not reached when runAnalysis() does not return)
ProcessBitmap(tex, w, h) ==
    /\ ~hung
    /\ animationId < MaxTimers
    /\ imageTexture' = tex
    /\ imgWidth' = w
    /\ imgHeight' = h
    /\ RunAnalysisOn(tex, w, h, maxScaleInput, sampleCenterOnly)
    /\ IF hung'
       THEN UNCHANGED <<animationId, timers>>
       ELSE /\ animationId' = animationId + 1
            /\ timers' = ClearInterval(timers, animationId)
                            \cup {animationId + 1}
    /\ tile' = NoTile
    /\ UNCHANGED <<maxScaleInput, sampleCenterOnly, downloaded, savedLowRes,
                   unityResult, reconstructed>>
    /\ UNCHANGED <<fitVars, dropVars, now>>

\* a drop of an image of one of the sizes whose decode settles at once
ProcessImageOf(sizes) ==
    \E size \in sizes, w \in 1..MaxSide, h \in 1..MaxSide :
        /\ w = size[1]
        /\ h = size[2]
        /\ \E tex \in [(0..(w - 1)) \X (0..(h - 1)) -> Palette] :
              /\ ProcessBitmap(tex, w, h)
              /\ lastDropped' = [seq |-> lastDropped.seq + 1, tex |-> tex,
                                 w |-> w, h |-> h]
              /\ UNCHANGED pending

ProcessImage == ProcessImageOf(ImageSizes)

\* runAnalysis() from the interval timer, lines 316-401
RunAnalysis ==
    /\ ~hung
    /\ timers # {}
    /\ imageTexture # NoTexture
    /\ RunAnalysisOn(imageTexture, imgWidth, imgHeight, maxScaleInput,
                     sampleCenterOnly)
    /\ UNCHANGED <<imageTexture, imgWidth, imgHeight, maxScaleInput,
                   sampleCenterOnly, downloaded, savedLowRes, unityResult,
                   reconstructed, tile>>
    /\ UNCHANGED <<fitVars, dropVars, now, pageVars>>

\* the change of the max-scale field, lines 511-513
MaxScaleChange ==
    /\ ~hung
    /\ \E v \in MaxScaleInputs :
          /\ v # maxScaleInput
          /\ maxScaleInput' = v
          /\ IF imageTexture # NoTexture
             THEN RunAnalysisOn(imageTexture, imgWidth, imgHeight, v,
                                sampleCenterOnly)
             ELSE UNCHANGED <<lastResult, uiBounds, hung, colData, rowData,
                              showReconstructed, displayed,
                   lastToggleTime, flipAt>>
    /\ UNCHANGED <<imageTexture, imgWidth, imgHeight, sampleCenterOnly,
                   downloaded, savedLowRes, unityResult, reconstructed, tile>>
    /\ UNCHANGED <<fitVars, dropVars, now, pageVars>>

\* the change of the sample-center checkbox, lines 515-517
SampleCenterChange ==
    /\ ~hung
    /\ sampleCenterOnly' = ~sampleCenterOnly
    /\ IF imageTexture # NoTexture
       THEN RunAnalysisOn(imageTexture, imgWidth, imgHeight, maxScaleInput,
                          ~sampleCenterOnly)
       ELSE UNCHANGED <<lastResult, uiBounds, hung, colData, rowData,
                        showReconstructed, displayed,
                   lastToggleTime, flipAt>>
    /\ UNCHANGED <<imageTexture, imgWidth, imgHeight, maxScaleInput,
                   downloaded, savedLowRes, unityResult, reconstructed, tile>>
    /\ UNCHANGED <<fitVars, dropVars, now, pageVars>>

ViewerInit == FitIdle /\ ViewIdle /\ now = 0

ViewerNext ==
    \/ ProcessImage
    \/ RunAnalysis
    \/ MaxScaleChange
    \/ SampleCenterChange

ViewerSpec == ViewerInit /\ [][ViewerNext]_vars

\* ---- the page with images wide enough for a grid of scale 3 on X
PreviewSizes == {<<3, 2>>}

ProcessPreview == ProcessImageOf(PreviewSizes)

PreviewNext ==
    \/ ProcessPreview
    \/ RunAnalysis
    \/ SampleCenterChange

\* the page, idle, right after it loaded or a while later
PreviewTimes == {0, 1500}

PreviewInit == FitIdle /\ ViewIdle /\ now \in PreviewTimes

PreviewSpec == PreviewInit /\ [][PreviewNext]_vars

\* ---- the page over time: a loaded image, the timer, the controls
MaxTime == 3000      \* the clock stops here

\* the time that passes between two handlers, in ms
TickSteps == {500, 1000}

Tick ==
    /\ \E d \in TickSteps :
          /\ now + d <= MaxTime
          /\ now' = now + d
    /\ UNCHANGED <<imageTexture, imgWidth, imgHeight, lastResult, maxScaleInput,
                   sampleCenterOnly, uiBounds, downloaded, savedLowRes,
                   unityResult, reconstructed, tile, hung, colData, rowData,
                   showReconstructed, displayed, lastToggleTime, flipAt>>
    /\ UNCHANGED <<fitVars, dropVars, pageVars>>

\* a 2 x 2 image with an edge on both axes, as processImage left it
ToggleTexture ==
    [p \in (0..1) \X (0..1) |-> IF p = <<1, 1>> THEN <<1, 0, 0>> ELSE Black]

ToggleInit ==
    /\ FitIdle
    /\ imageTexture = ToggleTexture
    /\ imgWidth = 2
    /\ imgHeight = 2
    /\ maxScaleInput = 16
    /\ sampleCenterOnly = FALSE
    /\ lastResult = Analysed(ToggleTexture, 2, 2, 16)
    /\ uiBounds = Bounds(2, 2, lastResult.resX, lastResult.resY)
    /\ downloaded = NoImage
    /\ savedLowRes = NoImage
    /\ unityResult = NoLastResult
    /\ reconstructed = NoTexture
    /\ tile = NoTile
    /\ hung = FALSE
    /\ colData = ColDiff(ToggleTexture, 2, 2)
    /\ rowData = RowDiff(ToggleTexture, 2, 2)
    /\ showReconstructed = FALSE
    /\ displayed = ToggleTexture
    /\ lastToggleTime = 0
    /\ flipAt = -1
    /\ droppedFiles = <<>>
    /\ hasDropped = FALSE
    /\ dispatched = <<>>
    /\ dropCount = 0
    /\ frame = 0
    /\ animationId = 1
    /\ timers = {1}
    /\ pending = {}
    /\ lastDropped = NoDrop
    /\ now = 0

ToggleNext ==
    \/ Tick
    \/ RunAnalysis
    \/ MaxScaleChange
    \/ SampleCenterChange
    \/ DownloadLowRes

ToggleSpec == ToggleInit /\ [][ToggleNext]_vars

\* ---- the page with drops whose decodes settle later, in any order
MaxDrops == 3        \* most files dropped
DropSizes == {<<1, 1>>, <<2, 1>>}

\* the drop handler, lines 434-446: createImageBitmap(file, ...) is started
Drop ==
    /\ ~hung
    /\ lastDropped.seq < MaxDrops
    /\ \E size \in DropSizes :
          \E tex \in [(0..(size[1] - 1)) \X (0..(size[2] - 1)) -> Palette] :
              \E file \in {[seq |-> lastDropped.seq + 1, tex |-> tex,
                            w |-> size[1], h |-> size[2]]} :
                  /\ pending' = pending \cup {file}
                  /\ lastDropped' = file
    /\ UNCHANGED <<imageTexture, imgWidth, imgHeight, lastResult, maxScaleInput,
                   sampleCenterOnly, uiBounds, downloaded, savedLowRes,
                   unityResult, reconstructed, tile, hung, colData, rowData,
                   showReconstructed, displayed, lastToggleTime, flipAt, now,
                   animationId, timers>>
    /\ UNCHANGED <<fitVars, dropVars>>

\* .then(processImage): one of the pending decodes settles
Decoded ==
    \E file \in pending :
        /\ ProcessBitmap(file.tex, file.w, file.h)
        /\ pending' = pending \ {file}
        /\ UNCHANGED lastDropped

DropNext ==
    \/ Drop
    \/ Decoded
    \/ RunAnalysis

DropSpec == ViewerInit /\ [][DropNext]_vars

\* ------------------------------------------- src/Unity/WindowsFileDrop.cs
MaxPaths == 3        \* most paths dropped on the window
MaxFrames == 4       \* most calls of Update

\* OnFilesDropped(files), FindPixelResolutionCli.cs 125-135: it returns, or
\* LoadAndTest throws (File.ReadAllBytes, File.WriteAllBytes; no try/catch)
HandlerOutcomes == {"returns", "throws"}

\* what is not the WindowsFileDrop component stays as it is
PageUnchanged ==
    /\ UNCHANGED <<imageTexture, imgWidth, imgHeight, lastResult, maxScaleInput,
                   sampleCenterOnly, uiBounds, downloaded, savedLowRes,
                   unityResult, reconstructed, tile, hung, colData, rowData,
                   showReconstructed, displayed, lastToggleTime, flipAt, now>>
    /\ UNCHANGED <<fitVars, pageVars>>

\* OnDrop(filePath, x, y), lines 55-59; the paths are numbered as they come
OnDrop ==
    /\ dropCount < MaxPaths
    /\ dropCount' = dropCount + 1
    /\ droppedFiles' = Append(droppedFiles, dropCount + 1)
    /\ hasDropped' = TRUE
    /\ UNCHANGED <<dispatched, frame>>
    /\ PageUnchanged

\* Update(), lines 44-53: an exception of the handler leaves Update before
\* _droppedFiles.Clear()
Update ==
    /\ frame < MaxFrames
    /\ frame' = frame + 1
    /\ IF hasDropped /\ Len(droppedFiles) > 0
       THEN /\ dispatched' = Append(dispatched, droppedFiles)
            /\ \E outcome \in HandlerOutcomes :
                  IF outcome = "returns"
                  THEN /\ droppedFiles' = <<>>
                       /\ hasDropped' = FALSE
                  ELSE UNCHANGED <<droppedFiles, hasDropped>>
       ELSE UNCHANGED <<droppedFiles, hasDropped, dispatched>>
    /\ UNCHANGED dropCount
    /\ PageUnchanged

FileDropNext ==
    \/ OnDrop
    \/ Update

FileDropSpec == ViewerInit /\ [][FileDropNext]_vars

\* ---------------------------------------------------------------- claims
\* C1: every estimate analyzePeriodicity returns has 0 <= offset < scale.
OffsetInRange ==
    pc = "done" => (0 <= result.offset /\ result.offset < result.scale)

\* a returned estimate of an accepted peak whose raw offset was negative:
\* the first normalisation loop has added scale to it
OffsetInRangeWitness ==
    /\ pc = "done"
    /\ peakK # -1
    /\ RawOffset(calculateDFTBin(data, chosenK).phase, scale) < 0
    /\ result.offset > 0

\* C2: when the energy is at least 0.0001 and the peak scan accepts a bin,
\* the returned scale lies in [2, maxScale].
ScaleInRange ==
    (pc = "done" /\ peakK # -1) =>
        (2 * FP <= result.scale /\ result.scale <= maxScale * FP)

\* C3: a signal whose sum is below 0.0001 gets exactly {1, 0, 0}, and the
\* sweep, the peak scan and the phase step never run on it.
DegenerateReturn ==
    10000 * TotalEnergy(data) < SampleDen =>
        /\ pc \in {"start", "done"}
        /\ mageVals = <<>> /\ chosenK = -FP /\ finalMag = 0
        /\ pc = "done" =>
              result = [scale |-> FP, offset |-> 0, confidence |-> 0]

\* a returned call on a signal that is not all zero, yet below the threshold
DegenerateReturnWitness ==
    /\ pc = "done"
    /\ TotalEnergy(data) > 0
    /\ 10000 * TotalEnergy(data) < SampleDen

\* C4: every call of analyzePeriodicity terminates with a returned estimate.
Terminates == <>(pc = "done")

\* C7: every bin k of the search band has its scale N / k in [2, maxScale].
BandInScaleRange ==
    pc = "sweep" =>
        \A k \in minK..maxK :
            2 * k <= Len(data) /\ Len(data) <= maxScale * k

\* the estimate {scale: 1, offset: 0, confidence: 0}
DegenerateEstimate == [scale |-> 1 * FP, offset |-> 0, confidence |-> 0]

\* C5 as stated: an image with W < 2 or H < 2 gets {1, 0, 0} on each axis.
ThinImageStated ==
    (imageTexture # NoTexture /\ (imgWidth < 2 \/ imgHeight < 2)) =>
        /\ ~hung
        /\ lastResult.resX = DegenerateEstimate
        /\ lastResult.resY = DegenerateEstimate

\* C5: an image with W < 2 gets {1, 0, 0} on the X axis and an image with
\* H < 2 gets {1, 0, 0} on the Y axis; the other axis is fitted to its own
\* signal.
ThinImage ==
    imageTexture # NoTexture =>
        /\ imgWidth < 2 => (~hung /\ lastResult.resX = DegenerateEstimate)
        /\ imgHeight < 2 => (~hung /\ lastResult.resY = DegenerateEstimate)

\* a 1 x 3 image whose rows differ: {1, 0, 0} on X, a fitted scale on Y
ThinImageWitness ==
    /\ imageTexture # NoTexture
    /\ imgWidth = 1 /\ imgHeight = 3
    /\ lastResult.resX = DegenerateEstimate
    /\ lastResult.resY.scale > 1 * FP

\* C6: the bounds updateUI derives cover the image: on each axis
\* minG <= maxG and the cell of every pixel lies in [minG, maxG].
GridCoverage ==
    uiBounds # NoBounds =>
        /\ uiBounds.minGridX <= uiBounds.maxGridX
        /\ uiBounds.minGridY <= uiBounds.maxGridY
        /\ \A p \in 0..(imgWidth - 1) :
              /\ uiBounds.minGridX <= GridIndex(p, lastResult.resX)
              /\ GridIndex(p, lastResult.resX) <= uiBounds.maxGridX
        /\ \A p \in 0..(imgHeight - 1) :
              /\ uiBounds.minGridY <= GridIndex(p, lastResult.resY)
              /\ GridIndex(p, lastResult.resY) <= uiBounds.maxGridY

\* bounds derived for a grid that starts inside the image on one axis
\* (a cell of negative index) and ends in a partial cell on the other
GridCoverageWitness ==
    /\ uiBounds # NoBounds
    /\ imgWidth = 42 /\ imgHeight = 3
    /\ lastResult.resX.scale = 3167 /\ lastResult.resX.offset = 2500
    /\ lastResult.resY.scale = 1500 /\ lastResult.resY.offset = 0
    /\ uiBounds.minGridX = -1
    /\ uiBounds.maxGridY = 1

\* the grid of scale 5 and offset 2 on the 42-pixel X axis
IsScenarioTwo ==
    /\ uiBounds # NoBounds
    /\ imgWidth = 42
    /\ lastResult.resX.scale = 5 * FP
    /\ lastResult.resX.offset = 2 * FP

\* C8 as stated: scale 5, offset 2 on a 42-pixel axis give minGx = 0 and
\* maxGx = 7, the 8 source cells.
ScenarioTwoBoundsStated ==
    IsScenarioTwo =>
        /\ uiBounds.minGridX = 0
        /\ uiBounds.maxGridX = 7
        /\ uiBounds.recW = 8

\* C8: scale 5, offset 2 on a 42-pixel axis give minGx = -1 and maxGx = 7:
\* the cell of the border and the 8 source cells, 9 in all.
ScenarioTwoBounds ==
    IsScenarioTwo =>
        /\ uiBounds.minGridX = -1
        /\ uiBounds.maxGridX = 7
        /\ uiBounds.recW = 9

\* the 42 x 42 image of the scenario with the same grid on both axes
ScenarioTwoWitness ==
    /\ IsScenarioTwo
    /\ imgHeight = 42
    /\ lastResult.resY = lastResult.resX
    /\ uiBounds.recH = 9

\* the size and the pixels a low-res image has when it holds the tile
\* pixel for pixel
IsTile(img, t) ==
    /\ img.width = t.K
    /\ img.height = t.L
    /\ \A p \in (0..(t.K - 1)) \X (0..(t.L - 1)) : img.px[p] = t.px[p]

\* ... and when it holds, before the tile, one cell of border on each axis
\* whose offset is positive
IsBorderedTile(img, t) ==
    LET bx == IF t.Ox > 0 THEN 1 ELSE 0
        by == IF t.Oy > 0 THEN 1 ELSE 0
    IN  /\ img.width = t.K + bx
        /\ img.height = t.L + by
        /\ \A p \in (0..(img.width - 1)) \X (0..(img.height - 1)) :
              img.px[p] = IF p[1] < bx \/ p[2] < by THEN Black
                          ELSE t.px[<<p[1] - bx, p[2] - by>>]

\* C9 as stated: reconstructing the upscale of a K x L tile with the exact
\* grid gives a K x L low-res image equal to the tile, in both sampling modes.
ReconFidelityStated ==
    /\ (downloaded # NoImage /\ downloaded.grid = ExactGrid(tile)) =>
           IsTile(downloaded, tile)
    /\ (savedLowRes # NoImage /\ savedLowRes.grid = ExactGrid(tile)) =>
           IsTile(savedLowRes, tile)

\* C9: reconstructing the upscale (factors 2 and more) of a K x L tile with
\* the exact grid gives, in both sampling modes, the tile pixel for pixel
\* behind one cell of border on each axis whose offset is positive: the size
\* is K x L only when both offsets are 0.
ReconFidelity ==
    /\ (downloaded # NoImage /\ downloaded.grid = ExactGrid(tile)) =>
           IsBorderedTile(downloaded, tile)
    /\ (savedLowRes # NoImage /\ savedLowRes.grid = ExactGrid(tile)) =>
           IsBorderedTile(savedLowRes, tile)

\* a 2 x 2 tile behind a border on X only, reconstructed with the exact
\* grid by the box average of both builds
ReconFidelityWitness ==
    /\ tile.K = 2 /\ tile.L = 2
    /\ tile.Sx = 3 /\ tile.Ox = 2 /\ tile.Sy = 2 /\ tile.Oy = 0
    /\ ~sampleCenterOnly
    /\ downloaded # NoImage /\ downloaded.grid = ExactGrid(tile)
    /\ savedLowRes # NoImage /\ savedLowRes.grid = ExactGrid(tile)
    /\ downloaded.width = 3 /\ downloaded.height = 2

\* the edge signal of a tile of K >= 2 pixels upscaled by the integer
\* factor S behind a border of O pixels (N = O + K * S): a spike at every
\* n = O + m * S with n >= 1, zero elsewhere (two spikes at least)
IsUpscaleEdge(d, S, O) ==
    /\ Len(d) >= O + 2 * S
    /\ (Len(d) - O) % S = 0
    /\ \A n \in 0..(Len(d) - 1) :
          (d[n + 1] > 0) <=> (n >= 1 /\ n >= O /\ (n - O) % S = 0)
    /\ Cardinality({n \in 1..Len(d) : d[n] > 0}) >= 2

\* the distance of a and b modulo m
CircDist(a, b, m) == Min((a - b) % m, (b - a) % m)

\* 0.01, the precision the round trip is stated to
Tolerance == FP \div 100

\* C10: on the edge signal of an integer upscale by S with offset O, the
\* fitter returns scale S (within 0.01) and an offset congruent to O
\* modulo S.
RoundTrip ==
    pc = "done" =>
        \A S \in 2..maxScale : \A O \in 0..(S - 1) :
            (IsUpscaleEdge(data, S, O) /\ 10000 * totalEnergy >= SampleDen) =>
                /\ Abs(result.scale - S * FP) <= Tolerance
                /\ CircDist(result.offset, O * FP, S * FP) <= Tolerance

\* C11: the edge projection gives col of length W and row of length H, every
\* value non-negative, and col[0] = 0 and row[0] = 0.
EdgeProjection ==
    imageTexture # NoTexture =>
        /\ Len(colData) = imgWidth
        /\ Len(rowData) = imgHeight
        /\ colData[1] = 0
        /\ rowData[1] = 0
        /\ \A n \in 1..imgWidth : colData[n] >= 0
        /\ \A n \in 1..imgHeight : rowData[n] >= 0

\* a 2 x 2 image whose first pixel is not black and whose second column
\* and second row each differ from the first
EdgeProjectionWitness ==
    /\ imageTexture # NoTexture
    /\ imgWidth = 2 /\ imgHeight = 2
    /\ imageTexture[<<0, 0>>] # Black
    /\ colData[2] > 0
    /\ rowData[2] > 0

\* the integers nearest to c / FP (two of them when c lies half-way)
NearestPixels(c) ==
    {n \in (FloorDiv(c, FP))..(FloorDiv(c, FP) + 1) : 2 * Abs(n * FP - c) <= FP}

\* the pixel of 0..n-1 whose range [p, p + 1) holds c / FP, or the edge pixel
\* on the side of c when c lies outside the image
ContainingPixel(c, n) ==
    IF c < 0 THEN 0 ELSE IF c >= n * FP THEN n - 1 ELSE c \div FP

\* the integer nearest to c / FP, the even one of the two when c lies half-way
NearestEvenPixel(c) ==
    IF Cardinality(NearestPixels(c)) = 1
    THEN CHOOSE n \in NearestPixels(c) : TRUE
    ELSE CHOOSE n \in NearestPixels(c) : n % 2 = 0

\* the cells of a low-res image img produced from the current image, as
\* <<pixel of img, cell on X, cell on Y>>
CellsOf(img, resX, resY) ==
    {<<p, MinGrid(resX) + p[1], MinGrid(resY) + p[2]>> :
        p \in (0..(img.width - 1)) \X (0..(img.height - 1))}

\* whether the web build samples cell (kx, ky) by the nearest-neighbour rule
WebSamplesNearest(img, kx, ky) ==
    \/ img.centerOnly
    \/ BoxRange(img.grid.resX, kx, imgWidth) = {}
    \/ BoxRange(img.grid.resY, ky, imgHeight) = {}

\* whether the Unity build does: its box holds no pixel of the image
UnitySamplesNearest(resX, resY, kx, ky) ==
    \/ UnityBoxRange(resX, kx, imgWidth) = {}
    \/ UnityBoxRange(resY, ky, imgHeight) = {}

\* C12 as stated: nearest-neighbour sampling of a cell reads the pixel at
\* clamp(round(cx), 0, W-1), clamp(round(cy), 0, H-1) (either neighbour when
\* the centre lies half-way).
NearestSampleStated ==
    /\ downloaded # NoImage =>
          \A q \in CellsOf(downloaded, downloaded.grid.resX,
                           downloaded.grid.resY) :
              WebSamplesNearest(downloaded, q[2], q[3]) =>
                  \E rx \in NearestPixels(CellCenter(downloaded.grid.resX, q[2])),
                     ry \in NearestPixels(CellCenter(downloaded.grid.resY, q[3])) :
                      downloaded.px[q[1]] =
                          imageTexture[<<Clamp(rx, 0, imgWidth - 1),
                                         Clamp(ry, 0, imgHeight - 1)>>]
    /\ savedLowRes # NoImage =>
          \A q \in CellsOf(savedLowRes, ClampScale(savedLowRes.grid.resX),
                           ClampScale(savedLowRes.grid.resY)) :
              UnitySamplesNearest(ClampScale(savedLowRes.grid.resX),
                                  ClampScale(savedLowRes.grid.resY),
                                  q[2], q[3]) =>
                  \E rx \in NearestPixels(
                               CellCenter(ClampScale(savedLowRes.grid.resX), q[2])),
                     ry \in NearestPixels(
                               CellCenter(ClampScale(savedLowRes.grid.resY), q[3])) :
                      savedLowRes.px[q[1]] =
                          imageTexture[<<Clamp(rx, 0, imgWidth - 1),
                                         Clamp(ry, 0, imgHeight - 1)>>]

\* C12: nearest-neighbour sampling of a cell reads, in the web build, the
\* pixel that holds the cell centre (the centre truncated, not rounded) and,
\* in the fallback of the Unity build, the pixel at the centre rounded to the
\* nearest integer, a half to the even one; both clamped to the image.
NearestSample ==
    /\ downloaded # NoImage =>
          \A q \in CellsOf(downloaded, downloaded.grid.resX,
                           downloaded.grid.resY) :
              WebSamplesNearest(downloaded, q[2], q[3]) =>
                  downloaded.px[q[1]] =
                      imageTexture[
                          <<ContainingPixel(
                                CellCenter(downloaded.grid.resX, q[2]), imgWidth),
                            ContainingPixel(
                                CellCenter(downloaded.grid.resY, q[3]), imgHeight)>>]
    /\ savedLowRes # NoImage =>
          \A q \in CellsOf(savedLowRes, ClampScale(savedLowRes.grid.resX),
                           ClampScale(savedLowRes.grid.resY)) :
              UnitySamplesNearest(ClampScale(savedLowRes.grid.resX),
                                  ClampScale(savedLowRes.grid.resY),
                                  q[2], q[3]) =>
                  savedLowRes.px[q[1]] =
                      imageTexture[
                          <<Clamp(NearestEvenPixel(
                                      CellCenter(ClampScale(savedLowRes.grid.resX),
                                                 q[2])), 0, imgWidth - 1),
                            Clamp(NearestEvenPixel(
                                      CellCenter(ClampScale(savedLowRes.grid.resY),
                                                 q[3])), 0, imgHeight - 1)>>]

\* a 4 x 2 image on the grid of scale 1.6, offset 0 on X: the centre-only
\* download has sampled cell 0 (centre 0.8) and the Unity build has fallen
\* back to the centre of a cell
NearestSampleWitness ==
    /\ imgWidth = 4 /\ imgHeight = 2
    /\ downloaded # NoImage
    /\ downloaded.centerOnly
    /\ downloaded.grid.resX.scale = 1600 /\ downloaded.grid.resX.offset = 0
    /\ downloaded.grid.resY.scale = 1500 /\ downloaded.grid.resY.offset = 770
    /\ savedLowRes # NoImage
    /\ savedLowRes.grid = downloaded.grid
    /\ \E q \in CellsOf(savedLowRes, ClampScale(savedLowRes.grid.resX),
                        ClampScale(savedLowRes.grid.resY)) :
          UnitySamplesNearest(ClampScale(savedLowRes.grid.resX),
                              ClampScale(savedLowRes.grid.resY), q[2], q[3])

\* the cells of the grid range of an axis of n pixels
GridRange(n, res) == MinGrid(res)..MaxGrid(n, res)

\* the cells that lie wholly inside the image: O + k*S >= 0, O + (k+1)*S <= N
WholeCells(n, res) ==
    {k \in GridRange(n, res) :
        /\ res.offset + k * res.scale >= 0
        /\ res.offset + (k + 1) * res.scale <= n * FP}

\* the low-res images made by a box average on a grid of scale 2 or more on
\* the axis, as <<grid of the axis, its size in pixels>>
BoxAveragedAxes ==
    {a \in {<<downloaded.grid.resX, imgWidth>>,
            <<downloaded.grid.resY, imgHeight>>} :
        downloaded # NoImage /\ ~downloaded.centerOnly /\ a[1].scale >= 2 * FP}
    \cup
    {a \in {<<savedLowRes.grid.resX, imgWidth>>,
            <<savedLowRes.grid.resY, imgHeight>>} :
        savedLowRes # NoImage /\ a[1].scale >= 2 * FP}

\* C13 as stated: for a scale of 2 or more the box window of every cell of
\* the grid range holds a pixel of the image.
BoxWindowStated ==
    \A a \in BoxAveragedAxes :
        \A k \in GridRange(a[2], a[1]) :
            /\ BoxRange(a[1], k, a[2]) # {}
            /\ UnityBoxRange(a[1], k, a[2]) # {}

\* C13: for a scale of 2 or more the box window of every cell that lies
\* wholly inside the image holds a pixel of the image; the window of a cell
\* cut by the image edge can be empty, and the fallback then samples it.
BoxWindow ==
    \A a \in BoxAveragedAxes :
        \A k \in WholeCells(a[2], a[1]) :
            /\ BoxRange(a[1], k, a[2]) # {}
            /\ UnityBoxRange(a[1], k, a[2]) # {}

\* a box-averaged download of the 4 x 2 image on the grid of scale 2, offset
\* 0.3 on X: cell 0 is whole, cell -1 is cut by the edge and its window is
\* empty
BoxWindowWitness ==
    /\ downloaded # NoImage /\ ~downloaded.centerOnly
    /\ savedLowRes # NoImage
    /\ imgWidth = 4
    /\ downloaded.grid.resX.scale = 2000 /\ downloaded.grid.resX.offset = 300
    /\ 0 \in WholeCells(imgWidth, downloaded.grid.resX)
    /\ BoxRange(downloaded.grid.resX, -1, imgWidth) = {}

\* the low-res width updateUI would derive with the scale s on X, the offset
\* and the image being those of the state
WidthAtScale(s) ==
    Bounds(imgWidth, imgHeight, [lastResult.resX EXCEPT !.scale = s],
           lastResult.resY).recW

\* the larger scales the width is compared at
LargerScales == {s \in GridScales : s > lastResult.resX.scale}

\* (W - 1 - Ox) * (1 / Sx - 1 / s) >= 1: the last pixel lies a whole cell
\* further along the grid of Sx than along the grid of s
CellFurther(s) ==
    ((imgWidth - 1) * FP - lastResult.resX.offset)
        * (s - lastResult.resX.scale) >= lastResult.resX.scale * s

\* C14 as stated: for a fixed offset and width, a larger scale gives a
\* strictly smaller low-res width.
SizeMonotoneStated ==
    uiBounds # NoBounds =>
        \A s \in LargerScales : WidthAtScale(s) < uiBounds.recW

\* C14: for a fixed offset and width, a larger scale never gives a larger
\* low-res width, and gives a strictly smaller one whenever
\* (W - 1 - Ox) * (1 / Sx - 1 / Sx') >= 1.
SizeMonotone ==
    uiBounds # NoBounds =>
        \A s \in LargerScales :
            /\ WidthAtScale(s) <= uiBounds.recW
            /\ CellFurther(s) => WidthAtScale(s) < uiBounds.recW

\* the bounds of a 42-pixel axis at scale 3.167: 14 cells, fewer at scale 5
SizeMonotoneWitness ==
    /\ uiBounds # NoBounds
    /\ imgWidth = 42
    /\ lastResult.resX.scale = 3167 /\ lastResult.resX.offset = 500
    /\ uiBounds.recW = 14
    /\ CellFurther(5000)
    /\ WidthAtScale(5000) = 10

\* C15: every pixel (gx, gy) of the low-res output is the colour of cell
\* (minGx + gx, minGy + gy); with the scales clamped to 1 or more the Unity
\* pixel loop has visited every cell of the range, so that no pixel is the
\* black written for a cell missing from the cache.
LowResCells ==
    /\ savedLowRes # NoImage =>
          \A q \in CellsOf(savedLowRes, ClampScale(savedLowRes.grid.resX),
                           ClampScale(savedLowRes.grid.resY)) :
              /\ q[2] \in VisitedCells(imgWidth,
                                       ClampScale(savedLowRes.grid.resX))
              /\ q[3] \in VisitedCells(imgHeight,
                                       ClampScale(savedLowRes.grid.resY))
              /\ savedLowRes.px[q[1]] # Black
              /\ savedLowRes.px[q[1]] =
                     UnityCellColor(imageTexture, imgWidth, imgHeight,
                                    ClampScale(savedLowRes.grid.resX),
                                    ClampScale(savedLowRes.grid.resY),
                                    q[2], q[3])
    /\ downloaded # NoImage =>
          \A q \in CellsOf(downloaded, downloaded.grid.resX,
                           downloaded.grid.resY) :
              downloaded.px[q[1]] =
                  DownsampleColor(imageTexture, imgWidth, imgHeight,
                                  downloaded.grid.resX, downloaded.grid.resY,
                                  q[2], q[3], downloaded.centerOnly)

\* the Unity low-res image of the 4 x 2 image for a result of scale 0.5 on
\* X, clamped to 1 (4 cells wide), and a first cell of index -1 on Y
LowResCellsWitness ==
    /\ savedLowRes # NoImage
    /\ imgWidth = 4 /\ imgHeight = 2
    /\ savedLowRes.grid.resX.scale = 500
    /\ savedLowRes.grid.resY.scale = 2000 /\ savedLowRes.grid.resY.offset = 300
    /\ MinGrid(savedLowRes.grid.resY) = -1
    /\ savedLowRes.width = 4 /\ savedLowRes.height = 2

\* C16: in preview mode every pixel takes the colour of its cell
\* (floor((px - Ox) / Sx), floor((py - Oy) / Sy)), so two pixels of one cell
\* have one colour; the Unity cache changes nothing, a cached colour being
\* the colour computed afresh.
PreviewOn ==
    /\ ~hung
    /\ displayed # NoTexture
    /\ showReconstructed
    /\ lastResult.resX.scale > 1 * FP
    /\ lastResult.resY.scale > 1 * FP

PreviewCells ==
    /\ PreviewOn =>
          \A p \in DOMAIN displayed :
              /\ displayed[p] =
                    DisplayCellColor(imageTexture, imgWidth, imgHeight,
                                     lastResult.resX, lastResult.resY,
                                     GridIndex(p[1], lastResult.resX),
                                     GridIndex(p[2], lastResult.resY),
                                     sampleCenterOnly)
              /\ \A q \in DOMAIN displayed :
                    (/\ GridIndex(p[1], lastResult.resX) = GridIndex(q[1], lastResult.resX)
                     /\ GridIndex(p[2], lastResult.resY) = GridIndex(q[2], lastResult.resY))
                    => displayed[p] = displayed[q]

\* C17: the bin the peak scan accepts is the smallest k of minK+1 .. maxK-1
\* with m[k] > m[k-1], m[k] > m[k+1] and m[k] > 0.4 * globalMax; the scan
\* accepts none when no such k exists, a bin at a band boundary is never
\* accepted, and the bins k-1, k, k+1 the refinement reads are all swept.
Scanned ==
    /\ pc \in {"fallback", "phase", "norm1", "norm1body", "norm2", "norm2body",
               "return", "done"}
    /\ mageVals # <<>>

SignificantPeak(k) ==
    /\ mageVals[k] > mageVals[k - 1]
    /\ mageVals[k] > mageVals[k + 1]
    /\ 10 * mageVals[k] > 4 * globalMax

PeakSelection ==
    Scanned =>
        /\ \A k \in minK..maxK : mageVals[k] <= globalMax
        /\ IF \E k \in (minK + 1)..(maxK - 1) : SignificantPeak(k)
           THEN /\ peakK \in (minK + 1)..(maxK - 1)
                /\ SignificantPeak(peakK)
                /\ \A j \in (minK + 1)..(peakK - 1) : ~SignificantPeak(j)
                /\ {peakK - 1, peakK, peakK + 1} \subseteq minK..maxK
           ELSE peakK = -1

\* an accepted bin behind a local maximum that stayed below the threshold
PeakSelectionWitness ==
    /\ Scanned
    /\ peakK > minK + 1
    /\ \E j \in (minK + 1)..(peakK - 1) :
          /\ mageVals[j] > mageVals[j - 1]
          /\ mageVals[j] > mageVals[j + 1]

\* C18: when the peak scan accepts no bin, the chosen k is the smallest
\* integer k of [minK, maxK] whose magnitude is the maximum over the band
\* (also when all magnitudes are 0), and it is used as it is, unrefined.
FallbackTaken ==
    /\ pc \in {"phase", "norm1", "norm1body", "norm2", "norm2body", "return",
               "done"}
    /\ mageVals # <<>>
    /\ peakK = -1

FallbackChoice ==
    FallbackTaken =>
        \E k \in minK..maxK :
            /\ chosenK = k * FP
            /\ \A j \in minK..maxK : mageVals[j] <= mageVals[k]
            /\ \A j \in minK..(k - 1) : mageVals[j] < mageVals[k]

\* C19: in a non-degenerate call with N >= 2 and maxScale >= 2 the band
\* [minK, maxK] = [max(1, floor(N / maxScale)), floor(N / 2)] is not empty,
\* the k of the final phase probe lies in it and is never -1, and the scale
\* N / k is positive.
BandSet ==
    /\ pc \notin {"idle", "start"}
    /\ ~Degenerate(totalEnergy)
    /\ Len(data) >= 2

PhaseProbed ==
    /\ BandSet
    /\ pc \in {"phase", "norm1", "norm1body", "norm2", "norm2body", "return",
               "done"}

ProbeInBand ==
    /\ BandSet =>
          /\ minK = Max(1, Len(data) \div maxScale)
          /\ maxK = Len(data) \div 2
          /\ minK <= maxK
    /\ PhaseProbed =>
          /\ chosenK # -FP
          /\ minK * FP <= chosenK
          /\ chosenK <= maxK * FP
    /\ (PhaseProbed /\ pc # "phase") => scale > 0
    /\ (BandSet /\ pc = "done") => result.scale > 0

\* a refined bin strictly between two integer bins, away from the band ends
ProbeInBandWitness ==
    /\ PhaseProbed
    /\ pc = "done"
    /\ peakK # -1
    /\ chosenK % FP # 0
    /\ result.scale > 0

\* C20: at a bin k the peak scan accepted, d = m[k-1] - 2 * m[k] + m[k+1] is
\* negative (the branch for d = 0 is never taken), the quotient
\* (m[k-1] - m[k+1]) / (2 * d) is below 1/2 in absolute value, and the
\* refined bin, the rounded sum of k and the quotient, is at most 1/2 away
\* from k, so inside [k - 1, k + 1].
PeakAccepted ==
    /\ pc \in {"phase", "norm1", "norm1body", "norm2", "norm2body", "return",
               "done"}
    /\ peakK # -1

Denominator == mageVals[peakK - 1] - 2 * mageVals[peakK] + mageVals[peakK + 1]

Flips == showReconstructed' # showReconstructed

AnalysisRan ==
    /\ now' = now
    /\ colData' = ColDiff(imageTexture', imgWidth', imgHeight')
    /\ lastResult' = Analysed(imageTexture', imgWidth', imgHeight',
                              maxScaleInput')

ToggleSpacing ==
    [][Flips => /\ AnalysisRan
                /\ flipAt' = now
                /\ flipAt # -1 => now - flipAt > TOGGLE_INTERVAL]_vars

\* the second flip, back to the original view, after a download
ToggleSpacingWitness ==
    /\ ~showReconstructed
    /\ flipAt > 2 * TOGGLE_INTERVAL
    /\ downloaded # NoImage

\* C22: after any sequence of image loads at most one interval timer is set:
\* none before the first load (animationId null), and afterwards the one
\* animationId names, the timer of the load before it having been cleared.
SingleTimer ==
    /\ Cardinality(timers) <= 1
    /\ animationId = 0 => timers = {}
    /\ animationId # 0 => timers = {animationId}

\* the third load, its timer the only one
SingleTimerWitness ==
    /\ animationId = 3
    /\ timers = {3}
    /\ pending = {}

\* C23: once every decode of a sequence of drops has settled, in whatever
\* order, the image in imageTexture, imgWidth and imgHeight, the one
\* runAnalysis analyses, is the image dropped last.
LatestImageHeld ==
    (/\ ~hung
     /\ pending = {}
     /\ lastDropped # NoDrop)
    => /\ imageTexture = lastDropped.tex
       /\ imgWidth = lastDropped.w
       /\ imgHeight = lastDropped.h
       /\ lastResult = Analysed(lastDropped.tex, lastDropped.w, lastDropped.h,
                                maxScaleInput)

\* C24: every path OnDrop received is handed to OnFilesDropped exactly once
\* and in drop order: an Update with paths pending dispatches all of them in
\* one array and leaves the buffer empty and _hasDropped false, an Update
\* with none pending dispatches nothing.
RECURSIVE Flatten(_)
Flatten(batches) ==
    IF batches = <<>> THEN <<>>
    ELSE Head(batches) \o Flatten(Tail(batches))

UpdateRan == frame' # frame

ExactlyOnce ==
    [][/\ Flatten(dispatched') \o droppedFiles' = [i \in 1..dropCount' |-> i]
       /\ UpdateRan =>
             IF hasDropped /\ Len(droppedFiles) > 0
             THEN /\ dispatched' = Append(dispatched, droppedFiles)
                  /\ droppedFiles' = <<>>
                  /\ ~hasDropped'
             ELSE dispatched' = dispatched]_vars
====
